---- MODULE Spec2Model ----
(***************************************************************************)
(* Verification model of n8n-nodes-akash.                                  *)
(*                                                                         *)
(*  Spec          Deployment Create (actions/deployment/create.operation)  *)
(*                and Deployment Update (actions/deployment/operations):   *)
(*                SDL validation, client creation, transaction broadcast,  *)
(*                the bid-polling loop, lease creation, manifest sending.  *)
(*  DispatchSpec  Akash.execute: routing of (resource, operation) to the   *)
(*                action handlers, once per input item.                    *)
(*                                                                         *)
(* Time is in milliseconds, as in the code.  A price.amount string         *)
(* "<w>.<t>" is the pair <<w, t>> (whole part, tenths); parseInt keeps the *)
(* leading digits only.                                                    *)
(***************************************************************************)
EXTENDS Integers, Sequences, FiniteSets, TLC

\* ------------------------------------------------------------------ bounds
MaxJitter == 1      \* extra whole seconds one poll iteration may take
MaxBids   == 2      \* longest bid list one getBids call returns
MaxItems  == 2      \* most input items given to Akash.execute
MaxEvents == 2      \* most events one transaction carries
MaxWholeAkt == 2    \* most whole AKT in a converted amount
MaxSizeLen == 4     \* longest memory size string

\* --------------------------------------------------------- program constants
bidPolling         == 3000     \* POLLING_INTERVALS.bidPolling
DefaultBidWaitTime == 120      \* (options.bidWaitTime || 120)
EarlyAcceptMs      == 30000    \* if (Date.now() - startTime > 30000) break

VARIABLES
    op,          \* "create" | "update": which handler runs
    sdl,         \* the 'sdl' node parameter (abstract SDL document)
    options,     \* the 'options' collection of Deployment Create
    pc,          \* position of the handler
    elapsed,     \* Date.now() - startTime
    polls,       \* number of completed loop iterations (getBids calls)
    bids,        \* let bids = []
    bestBid,     \* let bestBid = null
    calls,       \* transport calls made so far, in order
    raised,      \* transport calls that raised an error so far
    outcome,     \* "running" | "returned" | "thrown"
    error,       \* what was thrown
    response,    \* the json of the returned item
    \* ---- Akash.execute (DispatchSpec)
    resource, operation, nItems, continueOnFail, item, invoked, returnData, dpc,
    \* ---- AkashTrigger.trigger and AkashWebSocketClient (TriggerSpec)
    eventType,      \* the 'eventType' node parameter
    filters,        \* the 'filters' collection
    subscriptions,  \* the queries subscribed to on the socket
    tpc,            \* "start" | "listening" | "failed" | "closed"
    notif,          \* the transaction or block the chain commits
    inflight,       \* socket messages sent by the node, not yet handled
    received,       \* notification messages handled
    delivered,      \* events the client emitted as 'event'
    emitted,        \* workflow items the trigger emitted
    \* ---- Lease Close / Withdraw (LeaseSpec)
    leaseOp, leaseParams, lpc, broadcastMsg, leaseResult,
    \* ---- unit converters (ConvertSpec, MemorySpec)
    uakt, aktString, uaktBack, cpc,
    sizeStr, memResult, mpc

deployVars   == <<op, sdl, options, pc, elapsed, polls, bids, bestBid, calls,
                  raised, outcome, error, response>>
dispatchVars == <<resource, operation, nItems, continueOnFail, item, invoked,
                  returnData, dpc>>
triggerVars  == <<eventType, filters, subscriptions, tpc, notif, inflight, received,
                  delivered, emitted>>
leaseVars    == <<leaseOp, leaseParams, lpc, broadcastMsg, leaseResult>>
convertVars  == <<uakt, aktString, uaktBack, cpc>>
memoryVars   == <<sizeStr, memResult, mpc>>
vars         == <<op, sdl, options, pc, elapsed, polls, bids, bestBid, calls,
                  raised, outcome, error, response,
                  resource, operation, nItems, continueOnFail, item, invoked,
                  returnData, dpc,
                  eventType, filters, subscriptions, tpc, notif, inflight, received,
                  delivered, emitted,
                  leaseOp, leaseParams, lpc, broadcastMsg, leaseResult,
                  uakt, aktString, uaktBack, cpc,
                  sizeStr, memResult, mpc>>

\* the parts of the state a specification does not use stay at these values
TriggerIdle ==
    /\ eventType = "" /\ filters = <<>> /\ subscriptions = <<>> /\ tpc = "idle"
    /\ notif = <<>> /\ inflight = <<>> /\ received = 0
    /\ delivered = <<>> /\ emitted = <<>>

LeaseIdle ==
    /\ leaseOp = "" /\ leaseParams = <<>> /\ lpc = "idle" /\ broadcastMsg = <<>>
    /\ leaseResult = <<>>

ConvertIdle ==
    uakt = 0 /\ aktString = <<>> /\ uaktBack = <<>> /\ cpc = "idle"

MemoryIdle ==
    sizeStr = <<>> /\ memResult = <<>> /\ mpc = "idle"

\* ===================================================================== SDL
\* An SDL document after yaml.load: version, services (name, has image),
\* compute profiles (name, has resources), placement profiles (name, pricing
\* entries per compute profile) and the deployment section (placement ->
\* service -> {profile, count}).
GoodSDL ==
    [parses |-> TRUE, version |-> "2.0",
     services   |-> {[name |-> "web", image |-> TRUE]},
     compute    |-> {[name |-> "c1", resources |-> TRUE]},
     placement  |-> {[name |-> "dcloud",
                      pricing |-> {[profile |-> "c1", denom |-> TRUE, amount |-> 100]}]},
     deployment |-> {[placement |-> "dcloud", service |-> "web", profile |-> "c1", count |-> 1]}]

\* two services, two compute profiles, both priced
MultiSDL ==
    [parses |-> TRUE, version |-> "2.1",
     services   |-> {[name |-> "web", image |-> TRUE], [name |-> "api", image |-> TRUE]},
     compute    |-> {[name |-> "c1", resources |-> TRUE], [name |-> "c2", resources |-> TRUE]},
     placement  |-> {[name |-> "dcloud",
                      pricing |-> {[profile |-> "c1", denom |-> TRUE, amount |-> 100],
                                   [profile |-> "c2", denom |-> TRUE, amount |-> 200]}]},
     deployment |-> {[placement |-> "dcloud", service |-> "web", profile |-> "c1", count |-> 1],
                     [placement |-> "dcloud", service |-> "api", profile |-> "c2", count |-> 2]}]

\* the deployed compute profile c1 exists, but the placement prices only c2
UnpricedSDL ==
    [GoodSDL EXCEPT
       !.compute   = {[name |-> "c1", resources |-> TRUE], [name |-> "c2", resources |-> TRUE]},
       !.placement = {[name |-> "dcloud",
                       pricing |-> {[profile |-> "c2", denom |-> TRUE, amount |-> 200]}]}]

SDLInputs ==
    { GoodSDL, MultiSDL, UnpricedSDL,
      [GoodSDL EXCEPT !.parses = FALSE],
      [GoodSDL EXCEPT !.version = ""],
      [GoodSDL EXCEPT !.version = "1.0",
                      !.services = {[name |-> "web", image |-> FALSE]}],
      [GoodSDL EXCEPT !.services = {}],
      [GoodSDL EXCEPT !.compute = {[name |-> "c1", resources |-> FALSE]}],
      [GoodSDL EXCEPT !.placement = {[name |-> "dcloud", pricing |-> {}]}],
      [GoodSDL EXCEPT !.placement = {[name |-> "dcloud",
                         pricing |-> {[profile |-> "c1", denom |-> FALSE, amount |-> 0]}]}],
      [GoodSDL EXCEPT !.deployment = {}],
      [GoodSDL EXCEPT !.deployment =
          {[placement |-> "west", service |-> "db", profile |-> "c9", count |-> 0]}] }

Err(e, n) == [err |-> e, of |-> n]

validateService(s) ==
    IF s.image THEN {} ELSE {Err("missing required field 'image'", s.name)}

validateComputeProfile(p) ==
    IF p.resources THEN {} ELSE {Err("missing required field 'resources'", p.name)}

validatePlacementProfile(p) ==
    IF p.pricing = {}
    THEN {Err("missing required field 'pricing'", p.name)}
    ELSE UNION { (IF x.denom THEN {} ELSE {Err("pricing missing 'denom'", x.profile)})
                 \cup (IF x.amount <= 0
                       THEN {Err("pricing must have positive 'amount'", x.profile)}
                       ELSE {})
                 : x \in p.pricing }

\* the errors array of validateSDL (as a set: the order of the lines of the
\* message is not modelled)
validateSDLErrors(s) ==
    (IF s.version = "" THEN {Err("Missing required field: version", "")}
     ELSE IF s.version # "2.0" /\ s.version # "2.1"
          THEN {Err("Unsupported SDL version", s.version)} ELSE {})
    \cup
    (IF s.services = {} THEN {Err("Missing required field: services", "")}
     ELSE UNION {validateService(x) : x \in s.services})
    \cup
    (IF s.compute = {} THEN {Err("Missing required field: profiles.compute", "")}
     ELSE UNION {validateComputeProfile(x) : x \in s.compute})
    \cup
    (IF s.placement = {} THEN {Err("Missing required field: profiles.placement", "")}
     ELSE UNION {validatePlacementProfile(x) : x \in s.placement})
    \cup
    (IF s.deployment = {} THEN {Err("Missing required field: deployment", "")}
     ELSE UNION {
        (IF \E p \in s.placement : p.name = d.placement THEN {}
         ELSE {Err("Deployment references undefined placement profile", d.placement)})
        \cup
        (IF \E x \in s.services : x.name = d.service THEN {}
         ELSE {Err("Deployment references undefined service", d.service)})
        \cup
        (IF \E c \in s.compute : c.name = d.profile THEN {}
         ELSE {Err("Deployment references undefined compute profile", d.profile)})
        \cup
        (IF d.count < 1 THEN {Err("Invalid count for service", d.service)} ELSE {})
        : d \in s.deployment })

validateSDL_lenient(s) ==
    [valid |-> Cardinality(validateSDLErrors(s)) <= 1, errors |-> validateSDLErrors(s)]

\* return { valid: errors.length === 0, errors }
validateSDL(s) ==
    [valid |-> validateSDLErrors(s) = {}, errors |-> validateSDLErrors(s)]

\* 1 AKT = 1,000,000 uAKT
UAKT_PER_AKT == 1000000
AKT_DECIMALS == 6

\* the pricing entry calculateSDLPrice reads for a deployment entry:
\* sdl.profiles.placement[placementName].pricing[config.profile]
PricingOf(s, d) ==
    { x \in UNION {p.pricing : p \in {q \in s.placement : q.name = d.placement}}
        : x.profile = d.profile }

\* calculateSDLPrice dereferences pricing.amount: it throws a TypeError when
\* the placement has no pricing entry for the deployed profile
calculateSDLPriceThrows(s) ==
    \E d \in s.deployment : PricingOf(s, d) = {}

RECURSIVE SumPrices(_, _)
SumPrices(s, ds) ==
    IF ds = {} THEN 0
    ELSE LET d == CHOOSE x \in ds : TRUE
             p == CHOOSE x \in PricingOf(s, d) : TRUE
         IN  p.amount * UAKT_PER_AKT * d.count + SumPrices(s, ds \ {d})

calculateSDLPrice(s) == SumPrices(s, s.deployment)

ServiceNames(s) == {x.name : x \in s.services}
ProfileNames(s) == {x.name : x \in s.compute}


\* ==================================================================== bids
Providers == {"p1", "p2"}

\* price.amount strings "7.5" and "9.0"
AmountStrings == {<<7, 5>>, <<9, 0>>}

\* parseInt(b.price.amount, 10): the leading digits, up to the decimal point
parseInt(a) == a[1]

\* the number a price.amount string denotes, in tenths
Tenths(a) == 10 * a[1] + a[2]

Bid == [provider : Providers, amount : AmountStrings]

\* bestBid = null
NullBid == [provider |-> "null", amount |-> <<0, 0>>]

\* what one getBids call can return: at most MaxBids bids, one per provider
BidLists ==
    { l \in UNION {[1..n -> Bid] : n \in 0..MaxBids} :
        \A i, j \in 1..Len(l) : i # j => l[i].provider # l[j].provider }

\* bids.filter(pred)
RECURSIVE Filter(_, _)
Filter(l, maxPrice) ==
    IF l = <<>> THEN <<>>
    ELSE IF parseInt(Head(l).amount) <= maxPrice
         THEN <<Head(l)>> \o Filter(Tail(l), maxPrice)
         ELSE Filter(Tail(l), maxPrice)

\* let eligibleBids = bids; if (options.maxPrice && options.maxPrice > 0) filter
eligibleBids(l, maxPrice) ==
    IF maxPrice # 0 /\ maxPrice > 0 THEN Filter(l, maxPrice) ELSE l

\* eligibleBids.find(b => b.bidId.provider === preferredProvider): the first
\* match, NullBid for undefined
RECURSIVE Find(_, _)
Find(l, prov) ==
    IF l = <<>> THEN NullBid
    ELSE IF Head(l).provider = prov THEN Head(l) ELSE Find(Tail(l), prov)

\* the reducer callback: (prev, curr) => parseInt(curr) < parseInt(prev) ? curr : prev
Cheaper(prev, curr) ==
    IF parseInt(curr.amount) < parseInt(prev.amount) THEN curr ELSE prev

\* eligibleBids.reduce(callback) without initial value, on a non-empty list
RECURSIVE ReduceFrom(_, _)
ReduceFrom(acc, l) ==
    IF l = <<>> THEN acc ELSE ReduceFrom(Cheaper(acc, Head(l)), Tail(l))

LowestBid(l) == ReduceFrom(Head(l), Tail(l))

\* ================================================================= options
\* autoAcceptBid and sendManifest are tested with `!== false` (TRUE also
\* stands for an unset option); validateOnly for truthiness (FALSE also
\* stands for unset); bidWaitTime 0, maxPrice 0 and preferredProvider ""
\* stand for unset as well (all falsy).
DefaultOptions ==
    [autoAcceptBid |-> TRUE, bidWaitTime |-> 0, preferredProvider |-> "",
     maxPrice |-> 0, sendManifest |-> TRUE, validateOnly |-> FALSE]

\* the option collections tried: every combination with a 40 second wait,
\* and the empty collection (all defaults, 120 second wait)
OptionSets ==
    [autoAcceptBid     : BOOLEAN,
     bidWaitTime       : {40},
     preferredProvider : {"", "p1"},
     maxPrice          : {0, 7},
     sendManifest      : BOOLEAN,
     validateOnly      : BOOLEAN]
    \cup {DefaultOptions}

\* const bidWaitTime = (options.bidWaitTime || 120) * 1000
bidWaitTime(o) ==
    (IF o.bidWaitTime # 0 THEN o.bidWaitTime ELSE DefaultBidWaitTime) * 1000

pollInterval == bidPolling

\* the 'provider' parameter of Deployment Update
UpdateProvider == "p2"

\* transaction result codes: 0 is success
TxCodes == {0, 11}

EmptyResponse ==
    [valid |-> FALSE, estimatedPricePerBlock |-> -1, services |-> {}, profiles |-> {},
     success |-> FALSE, bidsReceived |-> -1,
     lease |-> "unset", leaseCreated |-> FALSE, leaseProvider |-> "", leasePrice |-> <<0, 0>>,
     message |-> "", manifestSent |-> "unset", manifestError |-> ""]

Call(c, p, code) == [call |-> c, provider |-> p, code |-> code]

NoError == [msg |-> "", errors |-> {}]

\* an error leaves the handler: nothing after the throwing statement runs
Throw(msg, errs) ==
    /\ outcome' = "thrown"
    /\ error' = [msg |-> msg, errors |-> errs]
    /\ pc' = "done"


\* ======================================================= Deployment Create
\* and Deployment Update
Init ==
    /\ op \in {"create", "update"}
    /\ sdl \in SDLInputs
    /\ options \in (IF op = "create" THEN OptionSets ELSE {DefaultOptions})
    /\ pc = "begin"
    /\ elapsed = 0
    /\ polls = 0
    /\ bids = <<>>
    /\ bestBid = NullBid
    /\ calls = <<>>
    /\ raised = {}
    /\ outcome = "running"
    /\ error = NoError
    /\ response = EmptyResponse
    /\ resource = "" /\ operation = "" /\ nItems = 0 /\ item = 0
    /\ continueOnFail = FALSE
    /\ TriggerIdle /\ LeaseIdle /\ ConvertIdle /\ MemoryIdle
    /\ invoked = <<>> /\ returnData = <<>> /\ dpc = "idle"

\* parseSDL, validateSDL, the 'SDL validation failed' throw and, in Create,
\* the validateOnly return
Validate ==
    /\ UNCHANGED <<dispatchVars, triggerVars, leaseVars, convertVars, memoryVars>>
    /\ pc = "begin"
    /\ UNCHANGED <<op, sdl, options, elapsed, polls, bids, bestBid, calls, raised>>
    /\ IF ~sdl.parses
       THEN Throw("SDL YAML parsing error", {}) /\ UNCHANGED response
       ELSE IF ~validateSDL(sdl).valid
       THEN Throw("SDL validation failed", validateSDL(sdl).errors) /\ UNCHANGED response
       ELSE IF op = "create" /\ options.validateOnly
       THEN IF calculateSDLPriceThrows(sdl)
            THEN Throw("TypeError", {}) /\ UNCHANGED response
            ELSE /\ response' = [response EXCEPT
                                   !.valid = TRUE,
                                   !.estimatedPricePerBlock = calculateSDLPrice(sdl),
                                   !.services = ServiceNames(sdl),
                                   !.profiles = ProfileNames(sdl)]
                 /\ outcome' = "returned"
                 /\ pc' = "done"
                 /\ UNCHANGED error
       ELSE /\ pc' = "clients"
            /\ UNCHANGED <<outcome, error, response>>

\* createCosmosClient (credentials, wallet and signing client: may fail) and
\* createConsoleApiClient
CreateClients ==
    /\ UNCHANGED <<dispatchVars, triggerVars, leaseVars, convertVars, memoryVars>>
    /\ pc = "clients"
    /\ UNCHANGED <<op, sdl, options, elapsed, polls, bids, bestBid, response>>
    /\ \/ /\ calls' = calls \o <<Call("createCosmosClient", "", -1)>>
          /\ raised' = raised \cup {"createCosmosClient"}
          /\ Throw("createCosmosClient failed", {})
       \/ /\ calls' = calls \o <<Call("createCosmosClient", "", 0),
                                 Call("createConsoleApiClient", "", 0)>>
          /\ pc' = "broadcast"
          /\ UNCHANGED <<raised, outcome, error>>

\* cosmosClient.createDeployment / cosmosClient.updateDeployment: the
\* transaction is broadcast and comes back with a code, or the call throws
Broadcast ==
    /\ UNCHANGED <<dispatchVars, triggerVars, leaseVars, convertVars, memoryVars>>
    /\ pc = "broadcast"
    /\ UNCHANGED <<op, sdl, options, polls, bids, bestBid>>
    /\ LET tx == IF op = "create" THEN "createDeployment" ELSE "updateDeployment" IN
       \/ /\ calls' = calls \o <<Call(tx, "", -1)>>
          /\ raised' = raised \cup {tx}
          /\ Throw("transaction failed", {})
          /\ UNCHANGED <<elapsed, response>>
       \/ \E code \in TxCodes :
          /\ calls' = calls \o <<Call(tx, "", code)>>
          /\ response' = [response EXCEPT !.success = (code = 0)]
          /\ elapsed' = 0                       \* const startTime = Date.now()
          /\ pc' = IF op = "create"
                   THEN (IF options.autoAcceptBid THEN "poll" ELSE "disconnect")
                   ELSE (IF code = 0 THEN "manifest" ELSE "disconnect")
          /\ UNCHANGED <<raised, outcome, error>>


\* ------------------------------------------------------------ the poll loop
\* the bid the loop body leaves in bestBid after getBids returned list l
SelectBid(best, l, o) ==
    LET el   == eligibleBids(l, o.maxPrice)
        pref == IF o.preferredProvider # ""
                THEN Find(el, o.preferredProvider) ELSE NullBid
    IN  IF Len(l) > 0
        THEN IF pref # NullBid THEN pref
             ELSE IF Len(el) > 0 THEN LowestBid(el)
             ELSE best
        ELSE best

\* whether the loop body executes one of its two break statements after
\* getBids returned list l, the clock reading `now` milliseconds after startTime
Breaks(l, o, now) ==
    LET el == eligibleBids(l, o.maxPrice) IN
    /\ Len(l) > 0
    /\ \/ /\ o.preferredProvider # ""
          /\ Find(el, o.preferredProvider) # NullBid
       \/ /\ Len(el) > 0
          /\ now > EarlyAcceptMs

LoopCondition_inclusive == elapsed <= bidWaitTime(options)

\* while (Date.now() - startTime < bidWaitTime)
LoopCondition == elapsed < bidWaitTime(options)

\* one iteration: the setTimeout of pollInterval (which fires no earlier
\* than asked), getBids, and the body
Poll ==
    /\ UNCHANGED <<dispatchVars, triggerVars, leaseVars, convertVars, memoryVars>>
    /\ pc = "poll"
    /\ LoopCondition
    /\ UNCHANGED <<op, sdl, options, calls, outcome, error, response>>
    /\ polls' = polls + 1
    /\ \E j \in 0..MaxJitter :
       /\ elapsed' = elapsed + pollInterval + 1000 * j
       /\ \/ \* getBids throws: catch (error) { /* Continue polling */ }
             /\ raised' = raised \cup {"getBids"}
             /\ UNCHANGED <<bids, bestBid, pc>>
          \/ \E l \in BidLists :
             /\ bids' = l
             /\ bestBid' = SelectBid(bestBid, l, options)
             /\ pc' = IF Breaks(l, options, elapsed') THEN "afterLoop" ELSE "poll"
             /\ UNCHANGED raised

\* the loop condition is false: the wait time is over
LoopExit ==
    /\ UNCHANGED <<dispatchVars, triggerVars, leaseVars, convertVars, memoryVars>>
    /\ pc = "poll"
    /\ ~LoopCondition
    /\ pc' = "afterLoop"
    /\ UNCHANGED <<op, sdl, options, elapsed, polls, bids, bestBid, calls, raised,
                   outcome, error, response>>

\* response.bidsReceived = bids.length; if (bestBid) ... else no suitable bids
AfterLoop ==
    /\ UNCHANGED <<dispatchVars, triggerVars, leaseVars, convertVars, memoryVars>>
    /\ pc = "afterLoop"
    /\ UNCHANGED <<op, sdl, options, elapsed, polls, bids, bestBid, calls, raised,
                   outcome, error>>
    /\ IF bestBid # NullBid
       THEN /\ response' = [response EXCEPT !.bidsReceived = Len(bids)]
            /\ pc' = "lease"
       ELSE /\ response' = [response EXCEPT
                              !.bidsReceived = Len(bids),
                              !.lease = "null",
                              !.message = "No suitable bids received within the wait time"]
            /\ pc' = "disconnect"

AfterLease_ignoresCode(o, code) ==
    IF o.sendManifest THEN "manifest" ELSE "disconnect"

\* if (options.sendManifest !== false && leaseResult.code === 0)
AfterLease(o, code) ==
    IF o.sendManifest /\ code = 0 THEN "manifest" ELSE "disconnect"

\* cosmosClient.createLease for bestBid
CreateLease ==
    /\ UNCHANGED <<dispatchVars, triggerVars, leaseVars, convertVars, memoryVars>>
    /\ pc = "lease"
    /\ UNCHANGED <<op, sdl, options, elapsed, polls, bids, bestBid>>
    /\ \/ /\ calls' = calls \o <<Call("createLease", bestBid.provider, -1)>>
          /\ raised' = raised \cup {"createLease"}
          /\ Throw("transaction failed", {})
          /\ UNCHANGED response
       \/ \E code \in TxCodes :
          /\ calls' = calls \o <<Call("createLease", bestBid.provider, code)>>
          /\ response' = [response EXCEPT
                            !.lease = "set",
                            !.leaseCreated = (code = 0),
                            !.leaseProvider = bestBid.provider,
                            !.leasePrice = bestBid.amount]
          /\ pc' = AfterLease(options, code)
          /\ UNCHANGED <<raised, outcome, error>>

ManifestFailed_reportsSent(r) ==
    [r EXCEPT !.manifestSent = "true"]

\* catch (error) { response.manifestSent = false; response.manifestError = ... }
ManifestFailed(r) ==
    [r EXCEPT !.manifestSent = "false", !.manifestError = "request failed"]

\* consoleClient.sendManifest inside try/catch: a failure is recorded in the
\* response and the handler goes on
SendManifest ==
    /\ UNCHANGED <<dispatchVars, triggerVars, leaseVars, convertVars, memoryVars>>
    /\ pc = "manifest"
    /\ UNCHANGED <<op, sdl, options, elapsed, polls, bids, bestBid, outcome, error>>
    /\ LET to == IF op = "create" THEN bestBid.provider ELSE UpdateProvider IN
       \/ /\ calls' = calls \o <<Call("sendManifest", to, 0)>>
          /\ response' = [response EXCEPT !.manifestSent = "true"]
          /\ UNCHANGED raised
       \/ /\ calls' = calls \o <<Call("sendManifest", to, -1)>>
          /\ raised' = raised \cup {"sendManifest"}
          /\ response' = ManifestFailed(response)
    /\ pc' = "disconnect"

\* await cosmosClient.disconnect(); return [{ json: response }]
Disconnect ==
    /\ UNCHANGED <<dispatchVars, triggerVars, leaseVars, convertVars, memoryVars>>
    /\ pc = "disconnect"
    /\ calls' = calls \o <<Call("disconnect", "", 0)>>
    /\ outcome' = "returned"
    /\ pc' = "done"
    /\ UNCHANGED <<op, sdl, options, elapsed, polls, bids, bestBid, raised, error, response>>

Next ==
    \/ Validate
    \/ CreateClients
    \/ Broadcast
    \/ Poll
    \/ LoopExit
    \/ AfterLoop
    \/ CreateLease
    \/ SendManifest
    \/ Disconnect

Spec == Init /\ [][Next]_vars


\* ============================================================ Akash.execute
\* the operations the node description offers for each resource
OfferedOperations(r) ==
    CASE r = "deployment"  -> {"close", "create", "deposit", "get", "getMany", "logs",
                               "status", "update"}
      [] r = "lease"       -> {"close", "create", "get", "getMany", "sendManifest", "status"}
      [] r = "order"       -> {"close", "get", "getMany"}
      [] r = "bid"         -> {"accept", "get", "getMany"}
      [] r = "provider"    -> {"filter", "get", "leases", "getMany", "status"}
      [] r = "certificate" -> {"create", "get", "getMany", "revoke"}
      [] r = "wallet"      -> {"balance", "delegations", "escrowBalances", "rewards", "send"}
      [] r = "marketplace" -> {"activeDeployments", "capacity", "estimate", "pricing",
                               "providerCount", "utilization"}

Resources == {"bid", "certificate", "deployment", "lease", "marketplace", "order",
              "provider", "wallet"}

\* the case labels of the switch execute has for each resource
RoutedOperations(r) ==
    CASE r = "deployment"  -> {"create", "get", "getMany", "update", "close", "status",
                               "logs", "deposit"}
      [] r = "lease"       -> {"get", "getMany", "close", "status", "sendManifest"}
      [] r = "order"       -> {"get", "getMany"}
      [] r = "bid"         -> {"get", "getMany", "accept"}
      [] r = "provider"    -> {"get", "getMany", "filter", "status", "leases"}
      [] r = "certificate" -> {"create", "get", "getMany", "revoke"}
      [] r = "wallet"      -> {"balance", "send", "delegations", "rewards", "escrowBalances"}
      [] r = "marketplace" -> {"capacity", "pricing", "estimate", "activeDeployments",
                               "providerCount", "utilization"}

NoHandler == <<"none", "none">>

\* the handler the if/switch chain of execute calls for (resource, operation);
\* a switch without a matching case falls through and leaves result = []
Route(r, o) == IF o \in RoutedOperations(r) THEN <<r, o>> ELSE NoHandler

DispatchInit ==
    /\ resource \in Resources
    /\ operation \in OfferedOperations(resource)
    /\ nItems \in 0..MaxItems
    /\ continueOnFail \in BOOLEAN
    /\ item = 0
    /\ invoked = <<>>
    /\ returnData = <<>>
    /\ dpc = "loop"
    /\ op = "create" /\ sdl = GoodSDL /\ options = DefaultOptions /\ pc = "idle"
    /\ elapsed = 0 /\ polls = 0 /\ bids = <<>> /\ bestBid = NullBid /\ calls = <<>>
    /\ raised = {} /\ outcome = "running" /\ error = NoError /\ response = EmptyResponse
    /\ TriggerIdle /\ LeaseIdle /\ ConvertIdle /\ MemoryIdle

\* one pass of the for loop over the input items: route, call the handler
\* (which returns its items or throws), push the result or handle the error
DispatchItem ==
    /\ UNCHANGED <<deployVars, triggerVars, leaseVars, convertVars, memoryVars>>
    /\ dpc = "loop"
    /\ item < nItems
    /\ UNCHANGED <<resource, operation, nItems, continueOnFail>>
    /\ LET h == Route(resource, operation) IN
       IF h = NoHandler
       THEN \* no case matched: returnData.push(...[])
            /\ item' = item + 1
            /\ UNCHANGED <<invoked, returnData, dpc>>
       ELSE /\ invoked' = Append(invoked, [handler |-> h, index |-> item])
            /\ \/ \E k \in 0..1 :      \* the handler returns k items
                  /\ returnData' = returnData \o [x \in 1..k |-> "item"]
                  /\ item' = item + 1
                  /\ UNCHANGED dpc
               \/ \* the handler throws
                  IF continueOnFail
                  THEN /\ returnData' = Append(returnData, "error")
                       /\ item' = item + 1
                       /\ UNCHANGED dpc
                  ELSE /\ dpc' = "thrown"
                       /\ UNCHANGED <<item, returnData>>

\* return [returnData]
DispatchReturn ==
    /\ UNCHANGED <<deployVars, triggerVars, leaseVars, convertVars, memoryVars>>
    /\ dpc = "loop"
    /\ item = nItems
    /\ dpc' = "returned"
    /\ UNCHANGED <<resource, operation, nItems, continueOnFail, item, invoked, returnData>>

DispatchNext ==
    \/ DispatchItem
    \/ DispatchReturn

DispatchSpec == DispatchInit /\ [][DispatchNext]_vars


\* the state of Spec and DispatchSpec while another specification runs
DeployIdle ==
    /\ op = "create" /\ sdl = GoodSDL /\ options = DefaultOptions /\ pc = "idle"
    /\ elapsed = 0 /\ polls = 0 /\ bids = <<>> /\ bestBid = NullBid /\ calls = <<>>
    /\ raised = {} /\ outcome = "running" /\ error = NoError /\ response = EmptyResponse

DispatchIdle ==
    /\ resource = "" /\ operation = "" /\ nItems = 0 /\ item = 0
    /\ continueOnFail = FALSE /\ invoked = <<>> /\ returnData = <<>> /\ dpc = "idle"

\* ============================================= AkashTrigger / AkashWebSocketClient
\* Strings the code takes apart or compares character by character are sequences
\* of one-character strings.
Owner1    == <<"a", "1">>
Owner2    == <<"a", "2">>
Provider1 == <<"p", "1">>
Provider2 == <<"p", "2">>

DigitValue == [c \in {"0", "1", "2", "3", "4", "5", "6", "7", "8", "9"} |->
                 CASE c = "0" -> 0 [] c = "1" -> 1 [] c = "2" -> 2 [] c = "3" -> 3
                   [] c = "4" -> 4 [] c = "5" -> 5 [] c = "6" -> 6 [] c = "7" -> 7
                   [] c = "8" -> 8 [] c = "9" -> 9]

IsDigit(c) == c \in DOMAIN DigitValue

NaN          == -2   \* parseInt of a string that does not start with a digit
UndefinedNum == -1   \* a numeric field that was never assigned
Undefined    == <<"undefined">>   \* Map.get of a key that is absent

RECURSIVE LeadingDigits(_)
LeadingDigits(s) ==
    IF s = <<>> \/ ~IsDigit(Head(s)) THEN <<>>
    ELSE <<Head(s)>> \o LeadingDigits(Tail(s))

RECURSIVE DecimalValue(_)
DecimalValue(ds) ==
    IF ds = <<>> THEN 0
    ELSE 10 * DecimalValue(SubSeq(ds, 1, Len(ds) - 1)) + DigitValue[ds[Len(ds)]]

\* parseInt(s, 10) of a string without sign or leading blanks
parseInt10(s) ==
    IF LeadingDigits(s) = <<>> THEN NaN ELSE DecimalValue(LeadingDigits(s))

\* a !== b on numbers: NaN differs from everything
NumberDiffers(a, b) == a = NaN \/ b = NaN \/ a # b

\* ---- the node's parameters
OfferedEventTypes ==
    {"all", "deployment.created", "deployment.updated", "deployment.closed",
     "lease.created", "lease.closed", "bid.created", "bid.closed",
     "provider.created", "provider.updated", "block"}

FilterSets ==
    [owner : {<<>>, Owner1}, provider : {<<>>, Provider1}, dseq : {0, 7}]

StartsWith(t, prefix) ==
    \/ prefix = "deployment." /\ t \in {"deployment.created", "deployment.updated",
                                         "deployment.closed"}
    \/ prefix = "lease."      /\ t \in {"lease.created", "lease.closed"}
    \/ prefix = "bid."        /\ t \in {"bid.created", "bid.closed"}
    \/ prefix = "provider."   /\ t \in {"provider.created", "provider.updated"}

\* ---- subscription queries
Query(module, action, sender, bidOwner, tmEvent) ==
    [module |-> module, action |-> action, sender |-> sender,
     bidOwner |-> bidOwner, tmEvent |-> tmEvent]

Subscription(name, query) == [name |-> name, query |-> query]

subscribeToDeployments(owner) ==
    <<Subscription("deployments", Query("deployment", "", owner, <<>>, ""))>>

subscribeToLeases(owner) ==
    <<Subscription("leases", Query("market", "", owner, <<>>, ""))>>

subscribeToBids(owner) ==
    <<Subscription("bids",
        Query("", "/akash.market.v1beta4.MsgCreateBid", <<>>, owner, ""))>>

subscribeToProviders ==
    <<Subscription("providers", Query("provider", "", <<>>, <<>>, ""))>>

subscribeToBlocks ==
    <<Subscription("blocks", Query("", "", <<>>, <<>>, "NewBlock"))>>

subscribeToAllEvents(owner) ==
    subscribeToDeployments(owner) \o subscribeToLeases(owner) \o subscribeToBids(owner)

\* the if / else-if chain after connect()
SubscriptionsFor(t, f) ==
    IF t = "all" THEN subscribeToAllEvents(<<>>)
    ELSE IF t = "block" THEN subscribeToBlocks
    ELSE IF StartsWith(t, "deployment.") THEN subscribeToDeployments(f.owner)
    ELSE IF StartsWith(t, "lease.") THEN subscribeToLeases(f.owner)
    ELSE IF StartsWith(t, "bid.") THEN subscribeToBids(f.owner)
    ELSE IF StartsWith(t, "provider.") THEN subscribeToProviders
    ELSE <<>>

\* ---- what the chain sends
eventTypeMap ==
    [t \in {"akash.deployment.v1beta3.EventDeploymentCreated",
            "akash.deployment.v1beta3.EventDeploymentUpdated",
            "akash.deployment.v1beta3.EventDeploymentClosed",
            "akash.market.v1beta4.EventLeaseCreated",
            "akash.market.v1beta4.EventLeaseClosed",
            "akash.market.v1beta4.EventBidCreated",
            "akash.market.v1beta4.EventBidClosed",
            "akash.market.v1beta4.EventOrderCreated",
            "akash.market.v1beta4.EventOrderClosed",
            "akash.provider.v1beta3.EventProviderCreated",
            "akash.provider.v1beta3.EventProviderUpdated"} |->
       CASE t = "akash.deployment.v1beta3.EventDeploymentCreated" -> "deployment.created"
         [] t = "akash.deployment.v1beta3.EventDeploymentUpdated" -> "deployment.updated"
         [] t = "akash.deployment.v1beta3.EventDeploymentClosed"  -> "deployment.closed"
         [] t = "akash.market.v1beta4.EventLeaseCreated"          -> "lease.created"
         [] t = "akash.market.v1beta4.EventLeaseClosed"           -> "lease.closed"
         [] t = "akash.market.v1beta4.EventBidCreated"            -> "bid.created"
         [] t = "akash.market.v1beta4.EventBidClosed"             -> "bid.closed"
         [] t = "akash.market.v1beta4.EventOrderCreated"          -> "order.created"
         [] t = "akash.market.v1beta4.EventOrderClosed"           -> "order.closed"
         [] t = "akash.provider.v1beta3.EventProviderCreated"     -> "provider.created"
         [] t = "akash.provider.v1beta3.EventProviderUpdated"     -> "provider.updated"]

Modules == {"deployment", "market", "provider"}

ActionsOf(module) ==
    CASE module = "deployment" -> {"/akash.deployment.v1beta3.MsgCreateDeployment"}
      [] module = "market"     -> {"/akash.market.v1beta4.MsgCreateBid",
                                   "/akash.market.v1beta4.MsgCreateLease"}
      [] module = "provider"   -> {"/akash.provider.v1beta3.MsgCreateProvider"}

\* the Tendermint event types a transaction of a module carries; "message" is
\* the SDK's own event, which eventTypeMap does not know
ChainEventTypesOf(module) ==
    CASE module = "deployment" ->
           {"message", "akash.deployment.v1beta3.EventDeploymentCreated",
            "akash.deployment.v1beta3.EventDeploymentUpdated",
            "akash.deployment.v1beta3.EventDeploymentClosed"}
      [] module = "market" ->
           {"message", "akash.market.v1beta4.EventLeaseCreated",
            "akash.market.v1beta4.EventLeaseClosed",
            "akash.market.v1beta4.EventBidCreated",
            "akash.market.v1beta4.EventBidClosed",
            "akash.market.v1beta4.EventOrderCreated",
            "akash.market.v1beta4.EventOrderClosed"}
      [] module = "provider" ->
           {"message", "akash.provider.v1beta3.EventProviderCreated",
            "akash.provider.v1beta3.EventProviderUpdated"}

Attribute(key, value) == [key |-> key, value |-> value]

\* the attribute lists events carry, before encoding
AttributeLists ==
    { <<>>,
      <<Attribute("owner", Owner1), Attribute("dseq", <<"7">>)>>,
      <<Attribute("owner", Owner1), Attribute("dseq", <<"7">>),
        Attribute("provider", Provider1)>>,
      <<Attribute("owner", Owner2), Attribute("dseq", <<"1", "2">>),
        Attribute("provider", Provider1)>>,
      <<Attribute("owner", Owner1), Attribute("dseq", <<"1", "2">>),
        Attribute("provider", Provider2)>> }

\* base64: the encoded form is a different value from the text it encodes
Base64(text)  == [b64 |-> text]
FromBase64(e) == e.b64

EncodeAttributes(attrs) ==
    [i \in DOMAIN attrs |->
       [key |-> Base64(attrs[i].key), value |-> Base64(attrs[i].value)]]

TendermintEvent(type, attrs) == [type |-> type, attributes |-> EncodeAttributes(attrs)]

Heights == {<<"4", "2">>}

NoNotification ==
    [kind |-> "none", module |-> "", action |-> "", sender |-> <<>>,
     height |-> <<>>, events |-> <<>>]

\* the transactions the chain may commit: up to MaxEvents events of the
\* module, all about the same deployment
Transactions ==
    UNION { UNION { { [kind |-> "tx", module |-> m, action |-> a, sender |-> s,
                       height |-> h,
                       events |-> [i \in 1..n |-> TendermintEvent(ts[i], attrs)]] :
                       a \in ActionsOf(m), s \in {Owner1, Owner2}, h \in Heights,
                       ts \in [1..n -> ChainEventTypesOf(m)], attrs \in AttributeLists } :
                    n \in 1..MaxEvents } : m \in Modules }

NewBlocks ==
    { [kind |-> "block", module |-> "", action |-> "", sender |-> <<>>,
       height |-> h, events |-> <<>>] : h \in Heights }

\* Tendermint's side of a subscription: does the notification satisfy the query
HasAttribute(ev, type, key, value) ==
    /\ ev.type = type
    /\ \E i \in DOMAIN ev.attributes :
          /\ FromBase64(ev.attributes[i].key) = key
          /\ FromBase64(ev.attributes[i].value) = value

Matches(q, n) ==
    IF n.kind = "block" THEN
        /\ q.tmEvent = "NewBlock"
        /\ q.module = "" /\ q.action = "" /\ q.sender = <<>> /\ q.bidOwner = <<>>
    ELSE
        /\ q.tmEvent = ""
        /\ q.module = "" \/ q.module = n.module
        /\ q.action = "" \/ q.action = n.action
        /\ q.sender = <<>> \/ q.sender = n.sender
        /\ \/ q.bidOwner = <<>>
           \/ \E i \in DOMAIN n.events :
                 HasAttribute(n.events[i], "akash.market.v1beta4.EventBidCreated",
                              "owner", q.bidOwner)

\* the JSON-RPC messages: the reply to a subscribe call has an empty result,
\* a Tx notification has result.data.value.TxResult, a NewBlock one has not
NoTxResult == [height |-> <<>>, events |-> <<>>]

SubscribeReply(name) ==
    [sub |-> name, hasData |-> FALSE, hasTxResult |-> FALSE, TxResult |-> NoTxResult]

NotificationMessage(name, n) ==
    IF n.kind = "tx"
    THEN [sub |-> name, hasData |-> TRUE, hasTxResult |-> TRUE,
          TxResult |-> [height |-> n.height, events |-> n.events]]
    ELSE [sub |-> name, hasData |-> TRUE, hasTxResult |-> FALSE, TxResult |-> NoTxResult]

\* one message for each subscription whose query the notification satisfies
RECURSIVE MessagesFor(_, _)
MessagesFor(subs, n) ==
    IF subs = <<>> THEN <<>>
    ELSE (IF Matches(Head(subs).query, n)
          THEN <<NotificationMessage(Head(subs).name, n)>> ELSE <<>>)
         \o MessagesFor(Tail(subs), n)

\* ---- AkashWebSocketClient
\* convertEvent: the converted event, or nothing where the code returns null
convertEvent(event, height) ==
    IF event.type \notin DOMAIN eventTypeMap THEN <<>>
    ELSE << [type       |-> eventTypeMap[event.type],
             attributes |-> [i \in DOMAIN event.attributes |->
                               Attribute(FromBase64(event.attributes[i].key),
                                         FromBase64(event.attributes[i].value))],
             height     |-> height] >>

RECURSIVE ConvertEach(_, _)
ConvertEach(events, height) ==
    IF events = <<>> THEN <<>>
    ELSE convertEvent(Head(events), height) \o ConvertEach(Tail(events), height)

parseEvents(message) ==
    IF ~message.hasTxResult THEN <<>>
    ELSE ConvertEach(message.TxResult.events, parseInt10(message.TxResult.height))

\* the events handleMessage emits as 'event'
handleMessage(message) ==
    IF message.hasData THEN parseEvents(message) ELSE <<>>

\* ---- AkashTrigger.trigger
\* new Map(pairs).get(key): the last pair with the key wins
RECURSIVE MapGet(_, _)
MapGet(attrs, key) ==
    IF attrs = <<>> THEN Undefined
    ELSE IF attrs[Len(attrs)].key = key THEN attrs[Len(attrs)].value
    ELSE MapGet(SubSeq(attrs, 1, Len(attrs) - 1), key)

Truthy(str) == str # Undefined /\ str # <<>>

parseEvent(event) ==
    LET dseqStr == MapGet(event.attributes, "dseq")
    IN  [type     |-> event.type,
         height   |-> event.height,
         owner    |-> MapGet(event.attributes, "owner"),
         provider |-> MapGet(event.attributes, "provider"),
         dseq     |-> IF Truthy(dseqStr) THEN parseInt10(dseqStr) ELSE UndefinedNum]

WorkflowItem(event, parsed) ==
    [eventType |-> event.type, blockHeight |-> event.height,
     owner |-> parsed.owner, provider |-> parsed.provider, dseq |-> parsed.dseq]

\* handleEvent with the dseq filter left out
handleEvent_noDseq(t, f, event) ==
    LET parsed == parseEvent(event)
    IN  IF f.owner # <<>> /\ parsed.owner # f.owner THEN <<>>
        ELSE IF f.provider # <<>> /\ parsed.provider # f.provider THEN <<>>
        ELSE IF t # "all" /\ event.type # t THEN <<>>
        ELSE <<WorkflowItem(event, parsed)>>

\* handleEvent: the items it emits for one event (none after an early return)
handleEvent(t, f, event) ==
    LET parsed == parseEvent(event)
    IN  IF f.owner # <<>> /\ parsed.owner # f.owner THEN <<>>
        ELSE IF f.provider # <<>> /\ parsed.provider # f.provider THEN <<>>
        ELSE IF f.dseq # 0 /\ NumberDiffers(parsed.dseq, f.dseq) THEN <<>>
        ELSE IF t # "all" /\ event.type # t THEN <<>>
        ELSE <<WorkflowItem(event, parsed)>>

RECURSIVE HandleEach(_, _, _)
HandleEach(t, f, events) ==
    IF events = <<>> THEN <<>>
    ELSE handleEvent(t, f, Head(events)) \o HandleEach(t, f, Tail(events))

RECURSIVE SubscribeReplies(_)
SubscribeReplies(subs) ==
    IF subs = <<>> THEN <<>>
    ELSE <<SubscribeReply(Head(subs).name)>> \o SubscribeReplies(Tail(subs))

OtherThanTrigger == <<deployVars, dispatchVars, leaseVars, convertVars, memoryVars>>

TriggerInit ==
    /\ eventType \in OfferedEventTypes
    /\ filters \in FilterSets
    /\ subscriptions = <<>> /\ tpc = "start"
    /\ notif \in Transactions \cup NewBlocks   \* what the chain commits next
    /\ inflight = <<>> /\ received = 0
    /\ delivered = <<>> /\ emitted = <<>>
    /\ DeployIdle /\ DispatchIdle /\ LeaseIdle /\ ConvertIdle /\ MemoryIdle

\* connect() resolves; the subscribe calls follow, the node acknowledges each
Connect ==
    /\ UNCHANGED OtherThanTrigger
    /\ tpc = "start"
    /\ tpc' = "listening"
    /\ subscriptions' = SubscriptionsFor(eventType, filters)
    /\ inflight' = SubscribeReplies(SubscriptionsFor(eventType, filters))
    /\ UNCHANGED <<eventType, filters, notif, received, delivered, emitted>>

\* connect() rejects: trigger() throws before subscribing
ConnectFails ==
    /\ UNCHANGED OtherThanTrigger
    /\ tpc = "start"
    /\ tpc' = "failed"
    /\ UNCHANGED <<eventType, filters, subscriptions, notif, inflight, received,
                   delivered, emitted>>

\* the transaction is committed; the node sends it to the matching subscriptions
ChainTx ==
    /\ UNCHANGED OtherThanTrigger
    /\ tpc = "listening" /\ notif.kind = "tx"
    /\ tpc' = "notified"
    /\ inflight' = inflight \o MessagesFor(subscriptions, notif)
    /\ UNCHANGED <<eventType, filters, subscriptions, notif, received, delivered,
                   emitted>>

\* the block is committed
ChainBlock ==
    /\ UNCHANGED OtherThanTrigger
    /\ tpc = "listening" /\ notif.kind = "block"
    /\ tpc' = "notified"
    /\ inflight' = inflight \o MessagesFor(subscriptions, notif)
    /\ UNCHANGED <<eventType, filters, subscriptions, notif, received, delivered,
                   emitted>>

\* ws 'message': handleMessage emits each parsed event, handleEvent runs on it
HandleMessage ==
    /\ UNCHANGED OtherThanTrigger
    /\ tpc \in {"listening", "notified"} /\ inflight # <<>>
    /\ LET events == handleMessage(Head(inflight))
       IN  /\ delivered' = delivered \o events
           /\ emitted' = emitted \o HandleEach(eventType, filters, events)
    /\ inflight' = Tail(inflight)
    /\ received' = IF Head(inflight).hasData THEN received + 1 ELSE received
    /\ UNCHANGED <<eventType, filters, subscriptions, tpc, notif>>

\* closeFunction: the listener is removed and the socket closed
CloseTrigger ==
    /\ UNCHANGED OtherThanTrigger
    /\ tpc \in {"listening", "notified"}
    /\ tpc' = "closed"
    /\ subscriptions' = <<>> /\ inflight' = <<>>
    /\ UNCHANGED <<eventType, filters, notif, received, delivered, emitted>>

TriggerNext ==
    \/ Connect
    \/ ConnectFails
    \/ ChainTx
    \/ ChainBlock
    \/ HandleMessage
    \/ CloseTrigger

TriggerSpec == TriggerInit /\ [][TriggerNext]_vars

\* ==================================================== Lease Close / Withdraw
MSG_TYPES ==
    [createDeployment  |-> "/akash.deployment.v1beta3.MsgCreateDeployment",
     closeDeployment   |-> "/akash.deployment.v1beta3.MsgCloseDeployment",
     updateDeployment  |-> "/akash.deployment.v1beta3.MsgUpdateDeployment",
     depositDeployment |-> "/akash.deployment.v1beta3.MsgDepositDeployment",
     createLease       |-> "/akash.market.v1beta4.MsgCreateLease",
     closeLease        |-> "/akash.market.v1beta4.MsgWithdrawLease",
     withdrawLease     |-> "/akash.market.v1beta4.MsgWithdrawLease",
     createCertificate |-> "/akash.cert.v1beta3.MsgCreateCertificate",
     revokeCertificate |-> "/akash.cert.v1beta3.MsgRevokeCertificate",
     sendTokens        |-> "/cosmos.bank.v1beta1.MsgSend"]

LeaseOperations == {"close", "withdraw"}

\* the node parameters of both operations (the address is 'provider' for
\* close and 'owner' for withdraw) and the wallet of the credentials
LeaseParamSets ==
    [dseq : {"7", "12"}, gseq : {1, 2}, oseq : {1, 2},
     address : {"akash1provider", "akash1other"},
     walletAddress : {"akash1wallet"}, signing : BOOLEAN]

LeaseId(owner, dseq, gseq, oseq, provider) ==
    [owner |-> owner, dseq |-> dseq, gseq |-> gseq, oseq |-> oseq,
     provider |-> provider]

\* CosmosClient.closeLease: the message and memo handed to signAndBroadcast
closeLease(walletAddress, dseq, gseq, oseq, provider) ==
    [typeUrl |-> MSG_TYPES.closeLease,
     leaseId |-> LeaseId(walletAddress, dseq, gseq, oseq, provider),
     memo    |-> "Lease closed via n8n-nodes-akash"]

\* CosmosClient.withdrawLease
withdrawLease(walletAddress, dseq, gseq, oseq, provider) ==
    [typeUrl |-> MSG_TYPES.withdrawLease,
     leaseId |-> LeaseId(walletAddress, dseq, gseq, oseq, provider),
     memo    |-> "Withdraw via n8n-nodes-akash"]

MessageOf(o, p) ==
    IF o = "close"
    THEN closeLease(p.walletAddress, p.dseq, p.gseq, p.oseq, p.address)
    ELSE withdrawLease(p.walletAddress, p.dseq, p.gseq, p.oseq, p.address)

NoLeaseResult ==
    [success |-> "none", dseq |-> "", gseq |-> 0, oseq |-> 0, address |-> "", error |-> ""]

LeaseThrows(message) == [NoLeaseResult EXCEPT !.error = message]

OtherThanLease == <<deployVars, dispatchVars, triggerVars, convertVars, memoryVars>>

LeaseInit ==
    /\ leaseOp \in LeaseOperations
    /\ leaseParams \in LeaseParamSets
    /\ lpc = "start" /\ broadcastMsg = <<>> /\ leaseResult = NoLeaseResult
    /\ DeployIdle /\ DispatchIdle /\ TriggerIdle /\ ConvertIdle /\ MemoryIdle

\* createCosmosClient resolves
LeaseClient ==
    /\ UNCHANGED OtherThanLease
    /\ lpc = "start"
    /\ lpc' = "client"
    /\ UNCHANGED <<leaseOp, leaseParams, broadcastMsg, leaseResult>>

\* createCosmosClient throws
LeaseClientFails ==
    /\ UNCHANGED OtherThanLease
    /\ lpc = "start"
    /\ lpc' = "thrown"
    /\ leaseResult' = LeaseThrows("createCosmosClient failed")
    /\ UNCHANGED <<leaseOp, leaseParams, broadcastMsg>>

\* closeLease / withdrawLease without a signing client: throws, no disconnect
LeaseNotSigning ==
    /\ UNCHANGED OtherThanLease
    /\ lpc = "client" /\ ~leaseParams.signing
    /\ lpc' = "thrown"
    /\ leaseResult' = LeaseThrows("Signing client not initialized")
    /\ UNCHANGED <<leaseOp, leaseParams, broadcastMsg>>

\* closeLease / withdrawLease: signAndBroadcast returns a transaction result
LeaseBroadcast ==
    /\ UNCHANGED OtherThanLease
    /\ lpc = "client" /\ leaseParams.signing
    /\ \E code \in TxCodes :
          broadcastMsg' = <<[msg |-> MessageOf(leaseOp, leaseParams), code |-> code]>>
    /\ lpc' = "broadcast"
    /\ UNCHANGED <<leaseOp, leaseParams, leaseResult>>

\* signAndBroadcast throws
LeaseBroadcastFails ==
    /\ UNCHANGED OtherThanLease
    /\ lpc = "client" /\ leaseParams.signing
    /\ broadcastMsg' = <<[msg |-> MessageOf(leaseOp, leaseParams), code |-> -1]>>
    /\ lpc' = "thrown"
    /\ leaseResult' = LeaseThrows("signAndBroadcast failed")
    /\ UNCHANGED <<leaseOp, leaseParams>>

\* disconnect and return the result item
LeaseReturn ==
    /\ UNCHANGED OtherThanLease
    /\ lpc = "broadcast"
    /\ lpc' = "done"
    /\ leaseResult' = [success |-> IF broadcastMsg[1].code = 0 THEN "true" ELSE "false",
                       dseq |-> leaseParams.dseq, gseq |-> leaseParams.gseq,
                       oseq |-> leaseParams.oseq, address |-> leaseParams.address,
                       error |-> ""]
    /\ UNCHANGED <<leaseOp, leaseParams, broadcastMsg>>

LeaseNext ==
    \/ LeaseClient
    \/ LeaseClientFails
    \/ LeaseNotSigning
    \/ LeaseBroadcast
    \/ LeaseBroadcastFails
    \/ LeaseReturn

LeaseSpec == LeaseInit /\ [][LeaseNext]_vars

\* ======================================================== amount converters
RECURSIVE Pow10(_)
Pow10(k) == IF k = 0 THEN 1 ELSE 10 * Pow10(k - 1)

DigitChar == [d \in 0..9 |->
                CASE d = 0 -> "0" [] d = 1 -> "1" [] d = 2 -> "2" [] d = 3 -> "3"
                  [] d = 4 -> "4" [] d = 5 -> "5" [] d = 6 -> "6" [] d = 7 -> "7"
                  [] d = 8 -> "8" [] d = 9 -> "9"]

\* Number.prototype.toString of a non-negative integer
RECURSIVE ToDigits(_)
ToDigits(n) ==
    IF n < 10 THEN <<DigitChar[n]>>
    ELSE ToDigits(n \div 10) \o <<DigitChar[n % 10]>>

RECURSIVE PadZeros(_, _)
PadZeros(ds, width) ==
    IF Len(ds) >= width THEN ds ELSE PadZeros(<<"0">> \o ds, width)

\* (num / den).toFixed(d) for den a power of ten: the quotient rounded to d
\* decimals, written with exactly d decimals
toFixed(num, den, d) ==
    LET unit   == Pow10(d)
        scaled == IF unit >= den THEN num * (unit \div den)
                  ELSE (num + (den \div unit) \div 2) \div (den \div unit)
    IN  ToDigits(scaled \div unit)
        \o (IF d = 0 THEN <<>> ELSE <<".">> \o PadZeros(ToDigits(scaled % unit), d))

\* parseFloat of a string without sign, blanks or exponent: the longest
\* prefix digits[.digits], as the number num / 10^scale
parseFloat(s) ==
    LET int  == LeadingDigits(s)
        rest == SubSeq(s, Len(int) + 1, Len(s))
        frac == IF rest # <<>> /\ Head(rest) = "." THEN LeadingDigits(Tail(rest))
                ELSE <<>>
    IN  IF int = <<>> /\ frac = <<>>
        THEN [nan |-> TRUE, num |-> 0, scale |-> 0]
        ELSE [nan |-> FALSE, num |-> DecimalValue(int \o frac), scale |-> Len(frac)]

\* Math.round(num / 10^scale * mult): halves round up
MathRound(num, scale, mult) ==
    LET den == Pow10(scale)
    IN  IF mult % den = 0 THEN num * (mult \div den)
        ELSE (2 * num * mult + den) \div (2 * den)

Returned(value) == [ok |-> TRUE, value |-> value, error |-> ""]
Thrown(message) == [ok |-> FALSE, value |-> <<>>, error |-> message]

\* aktToUakt of a string
aktToUakt(akt) ==
    LET aktNum == parseFloat(akt)
    IN  IF aktNum.nan THEN Thrown("Invalid AKT amount")
        ELSE Returned(ToDigits(MathRound(aktNum.num, aktNum.scale, UAKT_PER_AKT)))

\* uaktToAkt keeping one decimal too few
uaktToAkt_fiveDecimals(uaktNum) ==
    toFixed(uaktNum, UAKT_PER_AKT, AKT_DECIMALS - 1)

\* uaktToAkt of an integer (Math.round leaves it as it is)
uaktToAkt(uaktNum) ==
    toFixed(uaktNum, UAKT_PER_AKT, AKT_DECIMALS)

\* uaktToAkt of a string: parseInt first
uaktToAktOfString(str) ==
    IF parseInt10(str) = NaN THEN Thrown("Invalid uAKT amount")
    ELSE Returned(uaktToAkt(parseInt10(str)))

\* the uAKT amounts tried: every whole number of AKT up to MaxWholeAkt plus a
\* fraction with one non-zero digit, or one of a few with six
UaktFractions ==
    { d * Pow10(k) : d \in 0..9, k \in 0..5 }
        \cup {999999, 123456, 654321, 499999, 500001, 909090}

UaktInputs == { a * UAKT_PER_AKT + f : a \in 0..MaxWholeAkt, f \in UaktFractions }

NotCalled == [ok |-> FALSE, value |-> <<>>, error |-> "not called"]

OtherThanConvert == <<deployVars, dispatchVars, triggerVars, leaseVars, memoryVars>>

\* either an amount of uAKT to take to AKT and back, or a whole number of AKT
ConvertInit ==
    /\ \/ /\ cpc = "uakt" /\ uakt \in UaktInputs
       \/ /\ cpc = "whole" /\ uakt \in 0..MaxWholeAkt
    /\ aktString = <<>> /\ uaktBack = NotCalled
    /\ DeployIdle /\ DispatchIdle /\ TriggerIdle /\ LeaseIdle /\ MemoryIdle

\* uaktToAkt(u), u a number
ToAkt ==
    /\ UNCHANGED OtherThanConvert
    /\ cpc = "uakt"
    /\ aktString' = uaktToAkt(uakt)
    /\ cpc' = "akt"
    /\ UNCHANGED <<uakt, uaktBack>>

\* uaktToAkt(String(u))
ToAktOfString ==
    /\ UNCHANGED OtherThanConvert
    /\ cpc = "uakt"
    /\ aktString' = uaktToAktOfString(ToDigits(uakt)).value
    /\ cpc' = "aktOfString"
    /\ UNCHANGED <<uakt, uaktBack>>

\* aktToUakt of the string uaktToAkt returned
ToUakt ==
    /\ UNCHANGED OtherThanConvert
    /\ cpc \in {"akt", "aktOfString"}
    /\ uaktBack' = aktToUakt(aktString)
    /\ cpc' = "back"
    /\ UNCHANGED <<uakt, aktString>>

\* aktToUakt of a whole number of AKT
WholeToUakt ==
    /\ UNCHANGED OtherThanConvert
    /\ cpc = "whole"
    /\ aktString' = ToDigits(uakt)
    /\ uaktBack' = aktToUakt(ToDigits(uakt))
    /\ cpc' = "wholeDone"
    /\ UNCHANGED uakt

ConvertNext ==
    \/ ToAkt
    \/ ToAktOfString
    \/ ToUakt
    \/ WholeToUakt

ConvertSpec == ConvertInit /\ [][ConvertNext]_vars

\* ========================================================= parseMemorySize
\* Byte counts exceed the integers of the model checker, so they are kept as
\* numerals: sequences of limbs, least significant first, without leading zero
\* limbs (zero is the empty sequence).
Limb == Pow10(4)

RECURSIVE BigOf(_)
BigOf(n) == IF n = 0 THEN <<>> ELSE <<n % Limb>> \o BigOf(n \div Limb)

RECURSIVE BigTrim(_)
BigTrim(b) ==
    IF b # <<>> /\ b[Len(b)] = 0 THEN BigTrim(SubSeq(b, 1, Len(b) - 1)) ELSE b

RECURSIVE BigMulCarry(_, _, _)
BigMulCarry(b, k, carry) ==
    IF b = <<>> THEN BigOf(carry)
    ELSE LET t == Head(b) * k + carry
         IN  <<t % Limb>> \o BigMulCarry(Tail(b), k, t \div Limb)

\* b * k for a small k
BigMulSmall(b, k) == BigTrim(BigMulCarry(b, k, 0))

RECURSIVE BigAddSmall(_, _)
BigAddSmall(b, k) ==
    IF k = 0 THEN b
    ELSE IF b = <<>> THEN BigOf(k)
    ELSE LET t == Head(b) + k
         IN  <<t % Limb>> \o BigAddSmall(Tail(b), t \div Limb)

\* quotient and remainder of b by a small k
RECURSIVE BigDivRem(_, _)
BigDivRem(b, k) ==
    IF b = <<>> THEN [q |-> <<>>, r |-> 0]
    ELSE LET high == BigDivRem(Tail(b), k)
             cur  == high.r * Limb + Head(b)
         IN  [q |-> <<cur \div k>> \o high.q, r |-> cur % k]

\* the number a decimal literal of the source denotes
RECURSIVE BigOfDigits(_)
BigOfDigits(ds) ==
    IF ds = <<>> THEN <<>>
    ELSE BigAddSmall(BigMulSmall(BigOfDigits(SubSeq(ds, 1, Len(ds) - 1)), 10),
                     DigitValue[ds[Len(ds)]])

\* String.prototype.toLowerCase on the characters tried
ToLowerCase(c) ==
    CASE c = "K" -> "k" [] c = "M" -> "m" [] c = "G" -> "g" [] c = "T" -> "t"
      [] c = "P" -> "p" [] c = "I" -> "i" [] c = "B" -> "b" [] OTHER -> c

LowerAll(s) == [i \in DOMAIN s |-> ToLowerCase(s[i])]

RECURSIVE SkipSpaces(_)
SkipSpaces(s) ==
    IF s # <<>> /\ Head(s) = " " THEN SkipSpaces(Tail(s)) ELSE s

\* sizeStr.match(/^(\d+(?:\.\d+)?)\s*([KMGTP]i?)?$/i): whether it matches, and
\* the two groups
MatchSize(s) ==
    LET int    == LeadingDigits(s)
        r1     == SubSeq(s, Len(int) + 1, Len(s))
        frac   == IF r1 # <<>> /\ Head(r1) = "." THEN LeadingDigits(Tail(r1)) ELSE <<>>
        number == IF frac = <<>> THEN int ELSE int \o <<".">> \o frac
        r2     == SkipSpaces(SubSeq(s, Len(number) + 1, Len(s)))
        unit   == IF r2 # <<>> /\ ToLowerCase(Head(r2)) \in {"k", "m", "g", "t", "p"}
                  THEN (IF Len(r2) >= 2 /\ ToLowerCase(r2[2]) = "i"
                        THEN SubSeq(r2, 1, 2) ELSE SubSeq(r2, 1, 1))
                  ELSE <<>>
        r3     == SubSeq(r2, Len(unit) + 1, Len(r2))
    IN  [matched |-> int # <<>> /\ r3 = <<>>, number |-> number, unit |-> unit]

MultiplierUnits ==
    {<<>>, <<"k">>, <<"k", "i">>, <<"m">>, <<"m", "i">>, <<"g">>, <<"g", "i">>,
     <<"t">>, <<"t", "i">>, <<"p">>, <<"p", "i">>}

\* the multipliers table with ki entered as 1000
multipliers_kiAs1000(unit) ==
    CASE unit = <<>>           -> BigOf(1)
      [] unit = <<"k">>        -> BigOf(1000)
      [] unit = <<"k", "i">>   -> BigOf(1000)
      [] unit = <<"m">>        -> BigOf(1000000)
      [] unit = <<"m", "i">>   -> BigMulSmall(BigOf(1024), 1024)
      [] unit = <<"g">>        -> BigOf(1000000000)
      [] unit = <<"g", "i">>   -> BigMulSmall(BigMulSmall(BigOf(1024), 1024), 1024)
      [] unit = <<"t">>        -> BigOfDigits(<<"1", "0", "0", "0", "0", "0", "0", "0", "0", "0", "0", "0", "0">>)
      [] unit = <<"t", "i">>   ->
            BigMulSmall(BigMulSmall(BigMulSmall(BigOf(1024), 1024), 1024), 1024)
      [] unit = <<"p">>        -> BigOfDigits(<<"1", "0", "0", "0", "0", "0", "0", "0", "0", "0", "0", "0", "0", "0", "0", "0">>)
      [] unit = <<"p", "i">>   ->
            BigMulSmall(BigMulSmall(BigMulSmall(BigMulSmall(BigOf(1024), 1024),
                                                1024), 1024), 1024)

\* the multipliers table
multipliers(unit) ==
    CASE unit = <<>>           -> BigOf(1)
      [] unit = <<"k">>        -> BigOf(1000)
      [] unit = <<"k", "i">>   -> BigOf(1024)
      [] unit = <<"m">>        -> BigOf(1000000)
      [] unit = <<"m", "i">>   -> BigMulSmall(BigOf(1024), 1024)
      [] unit = <<"g">>        -> BigOf(1000000000)
      [] unit = <<"g", "i">>   -> BigMulSmall(BigMulSmall(BigOf(1024), 1024), 1024)
      [] unit = <<"t">>        -> BigOfDigits(<<"1", "0", "0", "0", "0", "0", "0", "0", "0", "0", "0", "0", "0">>)
      [] unit = <<"t", "i">>   ->
            BigMulSmall(BigMulSmall(BigMulSmall(BigOf(1024), 1024), 1024), 1024)
      [] unit = <<"p">>        -> BigOfDigits(<<"1", "0", "0", "0", "0", "0", "0", "0", "0", "0", "0", "0", "0", "0", "0", "0">>)
      [] unit = <<"p", "i">>   ->
            BigMulSmall(BigMulSmall(BigMulSmall(BigMulSmall(BigOf(1024), 1024),
                                                1024), 1024), 1024)

RECURSIVE BigAddCarry(_, _, _)
BigAddCarry(a, b, carry) ==
    IF a = <<>> /\ b = <<>> THEN BigOf(carry)
    ELSE LET t == (IF a = <<>> THEN 0 ELSE Head(a)) + (IF b = <<>> THEN 0 ELSE Head(b))
                  + carry
         IN  <<t % Limb>> \o BigAddCarry(IF a = <<>> THEN <<>> ELSE Tail(a),
                                         IF b = <<>> THEN <<>> ELSE Tail(b),
                                         t \div Limb)

RECURSIVE BigMul(_, _)
BigMul(a, b) ==
    IF b = <<>> THEN <<>>
    ELSE LET high == BigMul(a, Tail(b))
         IN  BigTrim(BigAddCarry(BigMulSmall(a, Head(b)),
                                 IF high = <<>> THEN <<>> ELSE <<0>> \o high, 0))

RECURSIVE BigPow(_, _)
BigPow(base, exp) ==
    IF exp = 0 THEN BigOf(1) ELSE BigMulSmall(BigPow(base, exp - 1), base)

RECURSIVE BigLess(_, _)
BigLess(a, b) ==
    IF Len(a) # Len(b) THEN Len(a) < Len(b)
    ELSE IF a = <<>> THEN FALSE
    ELSE IF a[Len(a)] # b[Len(b)] THEN a[Len(a)] < b[Len(b)]
    ELSE BigLess(SubSeq(a, 1, Len(a) - 1), SubSeq(b, 1, Len(b) - 1))

BigOdd(b) == b # <<>> /\ Head(b) % 2 = 1

\* 2^k as a numeral, thirteen bits at a time
RECURSIVE BigPow2(_)
BigPow2(k) ==
    IF k <= 13 THEN BigOf(2^k) ELSE BigMulSmall(BigPow2(k - 13), 2^13)

\* floor(b / 2^k), and whether any of the bits dropped was set
RECURSIVE DivPow2(_, _)
DivPow2(b, k) ==
    IF k = 0 THEN [q |-> b, dropped |-> FALSE]
    ELSE LET c     == IF k < 13 THEN k ELSE 13
             parts == BigDivRem(b, 2^c)
             rest  == DivPow2(BigTrim(parts.q), k - c)
         IN  [q |-> rest.q, dropped |-> parts.r # 0 \/ rest.dropped]

\* b rounded to a multiple of 2^k, in units of 2^k: ties go to the even
\* quotient (toEven) or up
RoundPow2(b, k, toEven) ==
    IF k = 0 THEN b
    ELSE LET high == DivPow2(b, k - 1)
             last == BigDivRem(high.q, 2)
             q    == BigTrim(last.q)
             up   == last.r = 1 /\ (~toEven \/ high.dropped \/ BigOdd(q))
         IN  IF up THEN BigAddSmall(q, 1) ELSE q

\* JavaScript numbers are IEEE 754 doubles: m * 2^(-e) with m below 2^53
Double(m, e) == [m |-> m, e |-> e]

Two52 == BigPow2(52)
Two53 == BigPow2(53)

\* the number of bits b has beyond 53 (0 if it has no more)
ExcessBits(b) ==
    IF BigLess(b, Two53) THEN 0
    ELSE CHOOSE s \in 1..64 : /\ BigLess(b, BigPow2(53 + s))
                              /\ ~BigLess(b, BigPow2(52 + s))

\* the double nearest to num / 10^scale, ties to the even mantissa:
\* num * 2^e / 10^scale rounded, for the e that puts it in [2^52, 2^53)
DoubleOf(num, scale) ==
    IF num = 0 THEN Double(<<>>, 0)
    ELSE LET den   == Pow10(scale)
             e     == CHOOSE e \in 0..80 :
                        /\ ~BigLess(BigTrim(BigDivRem(BigMul(BigOf(num), BigPow2(e)),
                                                      den).q), Two52)
                        /\ BigLess(BigTrim(BigDivRem(BigMul(BigOf(num), BigPow2(e)),
                                                     den).q), Two53)
             parts == BigDivRem(BigMul(BigOf(num), BigPow2(e)), den)
             q     == BigTrim(parts.q)
             up    == 2 * parts.r > den \/ (2 * parts.r = den /\ BigOdd(q))
         IN  Double(IF up THEN BigAddSmall(q, 1) ELSE q, e)

\* x * mult in double precision: the exact product rounded to 53 bits, ties
\* to even
DoubleTimes(x, mult) ==
    LET product == BigMul(x.m, mult)
        s       == ExcessBits(product)
    IN  Double(RoundPow2(product, s, TRUE), x.e - s)

\* Math.round of a non-negative double: the nearest integer, halves go up
MathRoundDouble(x) ==
    IF x.e <= 0 THEN BigMul(x.m, BigPow2(0 - x.e))
    ELSE RoundPow2(x.m, x.e, FALSE)

parseMemorySize(s) ==
    LET match == MatchSize(s)
        value == parseFloat(match.number)
        unit  == LowerAll(match.unit)
    IN  IF ~match.matched THEN Thrown("Invalid memory size format")
        ELSE IF unit \notin MultiplierUnits THEN Thrown("Unknown memory unit")
        ELSE Returned(MathRoundDouble(DoubleTimes(DoubleOf(value.num, value.scale),
                                              multipliers(unit))))

\* the characters and strings tried
SizeChars == {"1", "2", "5", ".", " ", "K", "M", "G", "T", "P", "i", "k", "B"}

SizeStrings == UNION { [1..n -> SizeChars] : n \in 0..MaxSizeLen }

OtherThanMemory == <<deployVars, dispatchVars, triggerVars, leaseVars, convertVars>>

MemoryInit ==
    /\ sizeStr \in SizeStrings
    /\ memResult = NotCalled /\ mpc = "start"
    /\ DeployIdle /\ DispatchIdle /\ TriggerIdle /\ LeaseIdle /\ ConvertIdle

ParseMemory ==
    /\ UNCHANGED OtherThanMemory
    /\ mpc = "start"
    /\ memResult' = parseMemorySize(sizeStr)
    /\ mpc' = "done"
    /\ UNCHANGED sizeStr

MemoryNext ==
    \/ ParseMemory

MemorySpec == MemoryInit /\ [][MemoryNext]_vars

\* ================================================================== claims
\* ceil(W / P) for the wait time W and poll interval P, both in milliseconds
MaxPolls(o) == (bidWaitTime(o) + pollInterval - 1) \div pollInterval

\* a createLease call has been issued
LeaseIssued == \E i \in DOMAIN calls : calls[i].call = "createLease"

\* the bid in bestBid comes from the preferred provider
PreferredSelected ==
    options.preferredProvider # "" /\ bestBid.provider = options.preferredProvider

InList(b, l) == \E i \in DOMAIN l : l[i] = b

\* C1: the bid-polling loop is bounded.  With W = (bidWaitTime or 120) seconds
\* and P = 3000 ms the loop never performs more than ceil(W/P) polls: every
\* step taken inside the loop either performs one more poll within that bound
\* or leaves the loop, and once the loop is left the operation goes on to
\* lease creation or to the 'No suitable bids received within the wait time'
\* outcome.
C1_BoundedPolling ==
    [][ /\ polls' <= MaxPolls(options)
        /\ pc = "poll" =>
              \/ pc' = "poll" /\ polls' = polls + 1
              \/ pc' = "afterLoop" /\ polls' \in {polls, polls + 1}
        /\ pc = "afterLoop" =>
              \/ pc' = "lease"
              \/ /\ pc' = "disconnect"
                 /\ response'.message = "No suitable bids received within the wait time"
                 /\ response'.lease = "null" ]_vars

\* C1 witness: the loop ran the full ceil(W/P) polls and was left
C1_Witness ==
    /\ pc = "afterLoop"
    /\ polls = MaxPolls(options)
    /\ options.bidWaitTime = 40

\* C2 (as claimed): with Max Price > 0, every bid for which createLease is
\* issued has price.amount <= maxPrice.
C2_LeasePriceWithinMax ==
    (op = "create" /\ LeaseIssued /\ options.maxPrice > 0)
        => Tenths(bestBid.amount) <= 10 * options.maxPrice

\* C3 (as claimed): when the lease is not created for a preferred-provider
\* bid, it is created for a lowest-priced eligible bid of the most recent
\* poll that returned: the bid is one of that poll's eligible bids and none
\* of them is cheaper.
C3_LowestOfLatestPoll ==
    (op = "create" /\ LeaseIssued /\ ~PreferredSelected)
        => /\ InList(bestBid, eligibleBids(bids, options.maxPrice))
           /\ \A i \in DOMAIN eligibleBids(bids, options.maxPrice) :
                 Tenths(bestBid.amount)
                    <= Tenths(eligibleBids(bids, options.maxPrice)[i].amount)

\* C4 (as claimed): once a poll returned a preferred-provider bid that passes
\* the max-price filter, polling has stopped and that bid is the one the lease
\* is created for, whatever the elapsed time and the other bids; and a
\* preferred-provider bid priced above Max Price is never the bid a lease is
\* created for.
C4_PreferredProvider ==
    /\ (op = "create" /\ options.preferredProvider # ""
           /\ Find(eligibleBids(bids, options.maxPrice), options.preferredProvider) # NullBid)
         => /\ pc # "poll"
            /\ bestBid = Find(eligibleBids(bids, options.maxPrice), options.preferredProvider)
            /\ \A i \in DOMAIN calls :
                  calls[i].call = "createLease"
                     => calls[i].provider = options.preferredProvider
    /\ (op = "create" /\ LeaseIssued /\ PreferredSelected /\ options.maxPrice > 0)
         => Tenths(bestBid.amount) <= 10 * options.maxPrice

\* C5 (as claimed): when no preferred-provider bid is found, no lease is
\* created before bidWaitTime seconds have elapsed since polling started.
C5_WaitsFullTime ==
    (op = "create" /\ pc = "lease" /\ ~PreferredSelected)
        => elapsed >= bidWaitTime(options)

\* C6: when validateSDL reports at least one error, Deployment Create and
\* Deployment Update fail with 'SDL validation failed' carrying those errors,
\* and no client was created, no transaction broadcast, no Console API call
\* made.
C6_ValidatedBeforeSubmission ==
    (sdl.parses /\ validateSDLErrors(sdl) # {} /\ pc \notin {"begin", "idle"})
        => /\ outcome = "thrown"
           /\ error.msg = "SDL validation failed"
           /\ error.errors = validateSDLErrors(sdl)
           /\ calls = <<>>
           /\ polls = 0
           /\ raised = {}

\* C6 witness: an update was rejected with two validation errors
C6_Witness ==
    /\ op = "update"
    /\ outcome = "thrown"
    /\ error.msg = "SDL validation failed"
    /\ Cardinality(error.errors) >= 2

\* C7: in Deployment Create the manifest is sent to a provider only after a
\* createLease for that provider returned code 0 and only when Send Manifest
\* is not disabled; createLease is issued only after the create-deployment
\* transaction was broadcast and after polling ended (no poll follows it);
\* disconnect is the last call.
C7_CreateOrder ==
    /\ [](op = "create" =>
          /\ \A i \in DOMAIN calls :
                /\ calls[i].call = "sendManifest" =>
                      /\ options.sendManifest
                      /\ \E j \in 1..(i - 1) :
                            /\ calls[j].call = "createLease"
                            /\ calls[j].provider = calls[i].provider
                            /\ calls[j].code = 0
                /\ calls[i].call = "createLease" =>
                      /\ \E j \in 1..(i - 1) :
                            calls[j].call = "createDeployment" /\ calls[j].code # -1
                      /\ pc \notin {"poll", "afterLoop"}
                /\ calls[i].call = "disconnect" => i = Len(calls) /\ pc = "done")
    /\ [][LeaseIssued => polls' = polls /\ bestBid' = bestBid]_vars

\* C7 witness: a create ran through lease, manifest and disconnect
C7_Witness ==
    /\ op = "create"
    /\ \E i, j, k \in DOMAIN calls :
          /\ i < j /\ j < k
          /\ calls[i].call = "createLease"
          /\ calls[j].call = "sendManifest"
          /\ calls[k].call = "disconnect"

\* C8 (as claimed): with Validate Only and an SDL that passes validation,
\* Deployment Create returns valid = true with the estimated price and the
\* service and compute-profile names, having created no client, broadcast no
\* transaction, polled no bids and sent no manifest.
C8_ValidateOnly ==
    (op = "create" /\ options.validateOnly /\ sdl.parses
        /\ validateSDLErrors(sdl) = {} /\ pc = "done")
        => /\ outcome = "returned"
           /\ response.valid
           /\ response.estimatedPricePerBlock = calculateSDLPrice(sdl)
           /\ response.services = ServiceNames(sdl)
           /\ response.profiles = ProfileNames(sdl)
           /\ calls = <<>>
           /\ polls = 0

ChainCalls == {"createDeployment", "updateDeployment", "createLease"}

\* C9 (as claimed): an error raised by any transport call is propagated to
\* the caller: once one was raised the operation has thrown.
C9_AllErrorsPropagate ==
    raised # {} => outcome = "thrown"

\* C9 (amended): an error raised by a chain-client call is propagated to the
\* caller with nothing done after the failing call; an error raised by
\* getBids is caught and does not end the operation; an error raised by
\* sendManifest is caught and reported as manifestSent = false with a
\* manifestError, and the operation never throws because of either.
C9_ChainErrorsPropagate ==
    /\ (raised \cap (ChainCalls \cup {"createCosmosClient"}) # {})
          => /\ outcome = "thrown" /\ pc = "done"
             /\ calls[Len(calls)].call \in raised
             /\ calls[Len(calls)].code = -1
    /\ outcome = "thrown"
          => \/ raised \cap (ChainCalls \cup {"createCosmosClient"}) # {}
             \/ calls = <<>>
    /\ "sendManifest" \in raised
          => /\ response.manifestSent = "false"
             /\ response.manifestError # ""
             /\ outcome # "thrown"
    /\ (pc = "done" /\ raised # {} /\ raised \subseteq {"getBids", "sendManifest"})
          => outcome = "returned"

\* C9 witness: a create returned normally although getBids and sendManifest
\* both raised
C9_Witness ==
    /\ outcome = "returned"
    /\ raised = {"getBids", "sendManifest"}

\* C10 (as claimed): for every offered (resource, operation), execute invokes
\* the corresponding handler once per input item, in order.
C10_EveryOfferedDispatched ==
    dpc = "returned"
        => /\ Len(invoked) = nItems
           /\ \A i \in DOMAIN invoked :
                 invoked[i] = [handler |-> <<resource, operation>>, index |-> i - 1]

\* ---- the trigger (TriggerSpec)
\* an event carries the attribute key with the given text
EventHas(e, key, value) ==
    \E i \in DOMAIN e.attributes :
        e.attributes[i].key = key /\ e.attributes[i].value = value

\* an event carries a dseq attribute whose number is d
EventHasDseq(e, d) ==
    \E i \in DOMAIN e.attributes :
        /\ e.attributes[i].key = "dseq"
        /\ e.attributes[i].value # <<>>
        /\ DecimalValue(e.attributes[i].value) = d

\* the acceptance condition as the claim words it: four independent conditions
Accepted(e) ==
    /\ eventType = "all" \/ e.type = eventType
    /\ filters.owner = <<>> \/ EventHas(e, "owner", filters.owner)
    /\ filters.provider = <<>> \/ EventHas(e, "provider", filters.provider)
    /\ filters.dseq = 0 \/ EventHasDseq(e, filters.dseq)

\* C11: the workflow items emitted are, in order, exactly the delivered
\* events that satisfy the type selection and every configured filter (owner,
\* provider, dseq), one item for each of them and none for the others.
C11_EmitsExactlyAccepted ==
    LET accepted == SelectSeq(delivered, Accepted)
    IN  /\ Len(emitted) = Len(accepted)
        /\ \A i \in DOMAIN emitted :
              /\ emitted[i].eventType = accepted[i].type
              /\ emitted[i].blockHeight = accepted[i].height
              /\ emitted[i].owner = MapGet(accepted[i].attributes, "owner")

\* C11 witness: with a type selected and the owner and dseq filters set, a
\* transaction delivered two events and exactly one of them was emitted
C11_Witness ==
    /\ tpc = "notified" /\ inflight = <<>>
    /\ eventType = "deployment.created"
    /\ filters.owner = Owner1 /\ filters.dseq = 7
    /\ Len(delivered) = 2
    /\ Len(emitted) = 1

\* C12 (as claimed): with 'New Block' selected, one workflow item has been
\* emitted for each new-block notification message handled.
C12_OneItemPerBlock ==
    eventType = "block" => Len(emitted) = received

\* C13 (as claimed): with 'All Events' selected and no filter, every event of
\* a committed transaction whose type the trigger offers has been emitted
\* once the messages sent for the transaction are handled.
C13_AllCoversOffered ==
    (/\ eventType = "all"
     /\ filters.owner = <<>> /\ filters.provider = <<>> /\ filters.dseq = 0
     /\ tpc = "notified" /\ inflight = <<>> /\ notif.kind = "tx")
        => \A i \in DOMAIN notif.events :
              (/\ notif.events[i].type \in DOMAIN eventTypeMap
               /\ eventTypeMap[notif.events[i].type] \in OfferedEventTypes)
                 => \E j \in DOMAIN emitted :
                       emitted[j].eventType = eventTypeMap[notif.events[i].type]

\* C14 (as claimed): the transaction Lease Close broadcasts is for the lease
\* (wallet owner, dseq, gseq, oseq, provider) and its message type is not the
\* type of the message the Withdraw operation broadcasts.
C14_CloseIsNotWithdraw ==
    (leaseOp = "close" /\ broadcastMsg # <<>>)
        => /\ Len(broadcastMsg) = 1
           /\ broadcastMsg[1].msg.leaseId =
                 LeaseId(leaseParams.walletAddress, leaseParams.dseq,
                         leaseParams.gseq, leaseParams.oseq, leaseParams.address)
           /\ broadcastMsg[1].msg.typeUrl # MessageOf("withdraw", leaseParams).typeUrl

\* C15: taking an amount u of uAKT to AKT and back gives u again, written
\* without leading zeros, and a whole number a of AKT is a x 1,000,000 uAKT.
C15_RoundTripExact ==
    /\ cpc = "back"
          => /\ uaktBack.ok
             /\ uaktBack.value = ToDigits(uakt)
             /\ DecimalValue(uaktBack.value) = uakt
    /\ cpc = "wholeDone"
          => /\ uaktBack.ok
             /\ DecimalValue(uaktBack.value) = uakt * 1000000

\* C15 witness: an amount with six significant decimals of AKT went there
\* and back
C15_Witness ==
    /\ cpc = "back"
    /\ uakt = 1123456
    /\ aktString = <<"1", ".", "1", "2", "3", "4", "5", "6">>
    /\ uaktBack.value = <<"1", "1", "2", "3", "4", "5", "6">>

\* ---- parseMemorySize (MemorySpec)
AllDigits(s) == s # <<>> /\ \A i \in DOMAIN s : IsDigit(s[i])

AllBlank(s) == \A i \in DOMAIN s : s[i] = " "

\* the units the claim lists, spelled as it spells them, and their multipliers
ClaimedUnits ==
    {<<>>, <<"K", "i">>, <<"M", "i">>, <<"G", "i">>, <<"T", "i">>,
     <<"K">>, <<"M">>, <<"G">>, <<"T">>}

ClaimedMultiplier(u) ==
    CASE u = <<>>         -> BigOf(1)
      [] u = <<"K", "i">> -> BigPow(1024, 1)
      [] u = <<"M", "i">> -> BigPow(1024, 2)
      [] u = <<"G", "i">> -> BigPow(1024, 3)
      [] u = <<"T", "i">> -> BigPow(1024, 4)
      [] u = <<"K">>      -> BigPow(10, 3)
      [] u = <<"M">>      -> BigPow(10, 6)
      [] u = <<"G">>      -> BigPow(10, 9)
      [] u = <<"T">>      -> BigPow(10, 12)

\* s is '<n><unit>': a run of digits followed by one of the listed units
ClaimedSplits(s) ==
    { k \in 1..Len(s) : /\ AllDigits(SubSeq(s, 1, k))
                        /\ SubSeq(s, k + 1, Len(s)) \in ClaimedUnits }

\* C16 (as claimed): a string '<n><unit>' with one of the units Ki, Mi, Gi,
\* Ti, K, M, G, T or none gives n times the unit's multiplier, and every other
\* string makes parseMemorySize throw 'Invalid memory size format'.
C16_ClaimedForm ==
    mpc = "done"
        => IF ClaimedSplits(sizeStr) # {}
           THEN LET k == CHOOSE k \in ClaimedSplits(sizeStr) : TRUE
                IN  memResult =
                      Returned(BigMulSmall(
                                 ClaimedMultiplier(SubSeq(sizeStr, k + 1, Len(sizeStr))),
                                 DecimalValue(SubSeq(sizeStr, 1, k))))
           ELSE memResult = Thrown("Invalid memory size format")

\* the form the amended claim describes: digits, optionally '.' and digits;
\* then blanks; then no unit or K, Ki, M, Mi, G, Gi, T, Ti, P, Pi in any case
IsDecimalNumber(s) ==
    \/ AllDigits(s)
    \/ \E k \in DOMAIN s :
          /\ s[k] = "."
          /\ AllDigits(SubSeq(s, 1, k - 1))
          /\ AllDigits(SubSeq(s, k + 1, Len(s)))

AcceptedMultiplier(u) ==
    CASE u = <<>>         -> BigOf(1)
      [] u = <<"k", "i">> -> BigPow(1024, 1)
      [] u = <<"m", "i">> -> BigPow(1024, 2)
      [] u = <<"g", "i">> -> BigPow(1024, 3)
      [] u = <<"t", "i">> -> BigPow(1024, 4)
      [] u = <<"p", "i">> -> BigPow(1024, 5)
      [] u = <<"k">>      -> BigPow(10, 3)
      [] u = <<"m">>      -> BigPow(10, 6)
      [] u = <<"g">>      -> BigPow(10, 9)
      [] u = <<"t">>      -> BigPow(10, 12)
      [] u = <<"p">>      -> BigPow(10, 15)

AcceptedUnits ==
    {<<>>, <<"k", "i">>, <<"m", "i">>, <<"g", "i">>, <<"t", "i">>, <<"p", "i">>,
     <<"k">>, <<"m">>, <<"g">>, <<"t">>, <<"p">>}

\* the ways to cut s into number, blanks and unit: <<end of number, end of blanks>>
AcceptedSplits(s) ==
    { ab \in (1..Len(s)) \X (1..Len(s)) :
         /\ ab[1] <= ab[2]
         /\ IsDecimalNumber(SubSeq(s, 1, ab[1]))
         /\ AllBlank(SubSeq(s, ab[1] + 1, ab[2]))
         /\ LowerAll(SubSeq(s, ab[2] + 1, Len(s))) \in AcceptedUnits }

\* what the amended claim expects: for a whole number exactly the number
\* times the multiplier, for a number with decimals Math.round of their
\* double-precision product
ExpectedBytes(number, mult) ==
    LET digits == SelectSeq(number, IsDigit)
        point  == { k \in DOMAIN number : number[k] = "." }
        places == IF point = {} THEN 0
                  ELSE Len(number) - (CHOOSE k \in point : TRUE)
    IN  IF places = 0 THEN BigMul(BigOf(DecimalValue(digits)), mult)
        ELSE MathRoundDouble(DoubleTimes(DoubleOf(DecimalValue(digits), places), mult))

\* C16 (amended): a string made of a decimal number, optional blanks and an
\* optional unit K, Ki, M, Mi, G, Gi, T, Ti, P or Pi in any letter case gives
\* Math.round of the number times the unit's multiplier (P = 10^15,
\* Pi = 1024^5) computed in double precision, which for a whole number is
\* exactly the number times the multiplier; every other string makes
\* parseMemorySize throw 'Invalid memory size format'.
C16_AcceptedForm ==
    mpc = "done"
        => IF AcceptedSplits(sizeStr) # {}
           THEN LET ab == CHOOSE ab \in AcceptedSplits(sizeStr) : TRUE
                IN  memResult =
                      Returned(ExpectedBytes(
                                 SubSeq(sizeStr, 1, ab[1]),
                                 AcceptedMultiplier(
                                   LowerAll(SubSeq(sizeStr, ab[2] + 1, Len(sizeStr))))))
           ELSE memResult = Thrown("Invalid memory size format")

\* C16 witness: a size with a blank before a unit the claim does not list
\* was parsed: '1 Pi' is 1024^5 = 1125899906842624 bytes
C16_Witness ==
    /\ mpc = "done"
    /\ sizeStr = <<"1", " ", "P", "i">>
    /\ memResult.ok
    /\ memResult.value = <<2624, 684, 8999, 1125>>

====
